---- MODULE Spec2Model ----
(***************************************************************************)
(* Market Pulse India (src/app.py): the per-day publication record, the    *)
(* news cycle fetch_and_post_news, the 00:05 job_reset and the scheduler   *)
(* threads that run them.                                                  *)
(*                                                                         *)
(* Text is modelled as a sequence of one-character strings, so that        *)
(* lower-casing, stripping and substring tests are computed the way the    *)
(* code computes them.  The rupee sign is the single character "Rs".       *)
(***************************************************************************)
EXTENDS Integers, Sequences, FiniteSets, TLC

\* ------------------------------------------------------------------------
\* Bounds of the model
\* ------------------------------------------------------------------------
\* Number of clock slots the run covers (three slots make one day).
MaxTime == 3
\* Number of news cycles the interval trigger starts in one run.
MaxCycles == 2
\* Number of process restarts in one run.
MaxRestarts == 1
\* Number of publications recorded in one recording run.
MaxRecordings == 20

\* ------------------------------------------------------------------------
\* Configuration and constants of app.py
\* ------------------------------------------------------------------------
\* NEWS_DAILY_LIMIT = int(os.getenv("NEWS_DAILY_LIMIT", "24")); the run
\* modelled here is configured with NEWS_DAILY_LIMIT=2.
NEWS_DAILY_LIMIT == 2
NEWS_SUMMARY_CHARS == 600
NEWS_STRICT_INDIA == TRUE
\* The slices [-600:] of posted_ids and posted_fps.
PostedCap == 600
\* The slice parsed.entries[:12].
EntriesPerFeed == 12
\* RSS_FEEDS, by position; the model polls the first two of the list.
RSS_FEEDS == <<1, 2>>

MUST_INCLUDE ==
  << <<"i","n","d","i","a">>,
     <<"n","i","f","t","y">>,
     <<"s","e","n","s","e","x">>,
     <<"n","s","e">>,
     <<"b","s","e">>,
     <<"s","e","b","i">>,
     <<"r","b","i">>,
     <<"i","p","o">>,
     <<"g","m","p">>,
     <<"f","i","i">>,
     <<"d","i","i">>,
     <<"r","u","p","e","e">>,
     <<"Rs">>,
     <<"c","r","o","r","e">>,
     <<"g","s","t">>,
     <<"p","s","u">>,
     <<"b","a","n","k"," ","n","i","f","t","y">>,
     <<"n","b","f","c">>,
     <<"p","s","b">>,
     <<"r","e","l","i","a","n","c","e">>,
     <<"t","c","s">>,
     <<"i","n","f","o","s","y","s">>,
     <<"h","d","f","c">>,
     <<"i","c","i","c","i">>,
     <<"s","b","i">>,
     <<"i","t","c">>,
     <<"o","n","g","c">> >>

BLOCK_FOREIGN ==
  << <<"w","a","l","l"," ","s","t","r","e","e","t">>,
     <<"d","o","w">>,
     <<"n","a","s","d","a","q">>,
     <<"s","&","p">>,
     <<"e","u","r","o"," ","z","o","n","e">>,
     <<"e","u","r","o","p","e">>,
     <<"u","k"," ">>,
     <<"u",".","k",".">>,
     <<"u","s"," ">>,
     <<"u",".","s",".">>,
     <<"a","u","s","t","r","a","l","i","a">>,
     <<"j","a","p","a","n">>,
     <<"c","h","i","n","a">>,
     <<"h","o","n","g"," ","k","o","n","g">>,
     <<"k","o","r","e","a">>,
     <<"a","u","s","t","r","a","l","i","a","n">>,
     <<"e","u","r","o","p","e","a","n">>,
     <<"g","e","r","m","a","n">>,
     <<"f","r","a","n","c","e">>,
     <<"i","t","a","l","y">>,
     <<"s","p","a","i","n">> >>

GLOBAL_WITH_IMPACT ==
  << <<"t","a","r","i","f","f">>,
     <<"i","m","p","o","r","t"," ","d","u","t","y">>,
     <<"e","x","p","o","r","t"," ","d","u","t","y">>,
     <<"s","a","n","c","t","i","o","n">>,
     <<"o","p","e","c">>,
     <<"c","r","u","d","e"," ","o","i","l">>,
     <<"b","r","e","n","t">>,
     <<"w","t","i">>,
     <<"f","e","d">>,
     <<"f","e","d","e","r","a","l"," ","r","e","s","e","r","v","e">>,
     <<"r","a","t","e"," ","h","i","k","e">>,
     <<"r","a","t","e"," ","c","u","t">>,
     <<"i","n","f","l","a","t","i","o","n">>,
     <<"c","p","i">>,
     <<"p","p","i">>,
     <<"g","d","p">>,
     <<"b","o","n","d"," ","y","i","e","l","d","s">>,
     <<"d","o","l","l","a","r"," ","i","n","d","e","x">>,
     <<"u","s","d">>,
     <<"y","u","a","n">>,
     <<"r","e","n","m","i","n","b","i">> >>

\* ------------------------------------------------------------------------
\* Text helpers
\* ------------------------------------------------------------------------
UpperChars == <<"A","B","C","D","E","F","G","H","I","J","K","L","M",
                "N","O","P","Q","R","S","T","U","V","W","X","Y","Z">>
LowerChars == <<"a","b","c","d","e","f","g","h","i","j","k","l","m",
                "n","o","p","q","r","s","t","u","v","w","x","y","z">>
Digits == {"0","1","2","3","4","5","6","7","8","9"}

Range(s) == { s[i] : i \in 1..Len(s) }

\* str.lower() on one character.
LowerChar(c) ==
  IF \E i \in 1..26 : UpperChars[i] = c
    THEN LowerChars[CHOOSE i \in 1..26 : UpperChars[i] = c]
    ELSE c

\* str.lower()
Lower(s) == [i \in 1..Len(s) |-> LowerChar(s[i])]

\* The class [a-z0-9] of norm_fp's regular expression.
IsAlnum(c) == c \in Range(LowerChars) \cup Digits

RECURSIVE KeepAlnum(_)
KeepAlnum(s) ==
  IF s = <<>> THEN <<>>
  ELSE IF IsAlnum(Head(s)) THEN <<Head(s)>> \o KeepAlnum(Tail(s))
  ELSE KeepAlnum(Tail(s))

\* norm_fp: re.sub(r"[^a-z0-9]+", "", (text or "").lower())
norm_fp(text) == KeepAlnum(Lower(text))

\* k in t  (Python substring test)
Contains(t, k) ==
  \E i \in 0..(Len(t) - Len(k)) : SubSeq(t, i + 1, i + Len(k)) = k

\* any(k in t for k in words)
AnyIn(words, t) == \E j \in 1..Len(words) : Contains(t, words[j])

\* A faulty classifier: the strict-locality test of line 269 comes before
\* the global-impact test of line 267.
is_india_headline_StrictFirst(strict, title, summary) ==
  LET t == Lower(title)
      s == Lower(summary)
  IN IF strict /\ ~AnyIn(MUST_INCLUDE, t) THEN FALSE
     ELSE IF AnyIn(GLOBAL_WITH_IMPACT, t \o s) THEN TRUE
     ELSE IF AnyIn(BLOCK_FOREIGN, t) THEN FALSE
     ELSE TRUE

\* is_india_headline, with the NEWS_STRICT_INDIA toggle as a parameter.
is_india_headline(strict, title, summary) ==
  LET t == Lower(title)
      s == Lower(summary)
  IN IF AnyIn(GLOBAL_WITH_IMPACT, t \o s) THEN TRUE
     ELSE IF strict /\ ~AnyIn(MUST_INCLUDE, t) THEN FALSE
     ELSE IF AnyIn(BLOCK_FOREIGN, t) THEN FALSE
     ELSE TRUE

\* Position of the last space of s, 0 when there is none.
LastSpace(s) ==
  IF \E i \in 1..Len(s) : s[i] = " "
    THEN CHOOSE i \in 1..Len(s) : s[i] = " " /\ \A j \in (i+1)..Len(s) : s[j] # " "
    ELSE 0

\* summarize_text on markup-free text of one sentence: the ranking keeps that
\* sentence, and only the cap out[:max_chars].rsplit(" ",1)[0] + "..." acts.
summarize_text(text, max_chars) ==
  IF Len(text) <= max_chars THEN text
  ELSE LET cut == SubSeq(text, 1, max_chars)
           sp  == LastSpace(cut)
       IN (IF sp = 0 THEN cut ELSE SubSeq(cut, 1, sp - 1)) \o <<"...">>

\* short_from_entry: e.get("summary") or e.get("description") or ""
short_from_entry(e) == summarize_text(e.summary, NEWS_SUMMARY_CHARS)

\* ------------------------------------------------------------------------
\* Feed entries the collector can see
\* ------------------------------------------------------------------------
NoText == <<>>

\* The entries the feeds of this run can carry, by position.
\*   1, 2 : different ids, titles with one fingerprint ("rbiup")
\*   3    : neither id nor link, so the title is the natural key
\*   4    : a foreign-market title with no local term (rejected, strict mode)
\*   5    : a global-impact title
ENTRIES ==
  << [id |-> <<"a">>, link |-> <<"l","1">>, title |-> <<"R","B","I"," ","u","p">>, summary |-> NoText],
     [id |-> <<"b">>, link |-> <<"l","2">>, title |-> <<"r","b","i","-","U","p","!">>, summary |-> NoText],
     [id |-> NoText,  link |-> NoText,      title |-> <<"N","i","f","t","y">>, summary |-> NoText],
     [id |-> <<"c">>, link |-> <<"l","4">>, title |-> <<"D","o","w">>, summary |-> NoText],
     [id |-> <<"d">>, link |-> NoText,      title |-> <<"F","e","d">>, summary |-> NoText] >>

EntryIds == 1..Len(ENTRIES)

\* uid = entry.get("id") or entry.get("link") or entry.get("title")
Uid(e) == IF e.id # NoText THEN e.id ELSE IF e.link # NoText THEN e.link ELSE e.title

\* The entry lists feedparser.parse returns in this run (parsed.entries).
FeedResults == { <<>>, <<1>>, <<1, 2>>, <<3, 1>>, <<4, 5>> }

\* s[:n]
FirstN(s, n) == SubSeq(s, 1, IF Len(s) < n THEN Len(s) ELSE n)
\* A faulty slice s[:n]: the newest entries are the ones dropped.
LastN_KeepsOldest(s, n) == IF Len(s) <= n THEN s ELSE SubSeq(s, 1, n)

\* s[-n:]
LastN(s, n) == IF Len(s) <= n THEN s ELSE SubSeq(s, Len(s) - n + 1, Len(s))

\* ------------------------------------------------------------------------
\* The per-day record
\* ------------------------------------------------------------------------
\* date None
NoneDate == -1

\* A dict in memory.  ids_shared / fps_shared tell whether its posted_ids /
\* posted_fps is the very list object of DEFAULT_STATE (dict.copy() is a
\* shallow copy) or a list of its own (json.load, a slice).
Dict(d, ids, fps, n, si, sf) ==
  [date |-> d, posted_ids |-> ids, posted_fps |-> fps, news_count_today |-> n,
   ids_shared |-> si, fps_shared |-> sf]

\* What json.dump writes and json.load returns: the values only.
Plain(S) == Dict(S.date, S.posted_ids, S.posted_fps, S.news_count_today, FALSE, FALSE)

NoData == Dict(NoneDate, <<>>, <<>>, 0, FALSE, FALSE)

\* The state file: ok = FALSE is a file that json.load cannot read
\* (missing, truncated by a failed write).
GoodFile(S) == [ok |-> TRUE, data |-> Plain(S)]
BadFile == [ok |-> FALSE, data |-> NoData]


VARIABLES
  now,            \* clock slot; slot mod 3 = 0 is 00:00-00:05, 1 is 00:05-05:30, 2 is 05:30-24:00 (IST)
  hostShift,      \* 0: host clock in IST; 1: host clock in UTC (date.today() turns at 05:30 IST)
  botToken,       \* BOT_TOKEN is set
  diskOk,         \* state.json can be opened for writing (FALSE: open(..., "w") raises)
  file,           \* state.json
  DEFAULT_STATE,  \* the template dict
  State,          \* the global STATE (STATE is a reserved word of TLA+)
  npc,            \* position of the news_interval job's thread
  data,           \* load_state's return value, before the assignment to STATE
  feedIdx,        \* position in RSS_FEEDS
  entries,        \* parsed.entries[:12] of the current feed
  entryIdx,       \* position in entries
  rpc,            \* position of the job_reset thread
  cycles,         \* news cycles started
  restarts,       \* process restarts
  sent,           \* history (plain runs): entries delivered in the current operating-timezone day
  sentCount,      \* history (plain runs): number of deliveries in the current operating-timezone day
  sinceReset,     \* history (writable state file): entries delivered in that day since the
                  \*   record was last replaced
  cyc,            \* history of the running cycle: clean = its deliveries if it began at count 0
                  \*   in a plain run and no delivery failed, else -1; lastFailed = the feed
                  \*   that raised last (0: none); ok = tg_send returned True for the entry
                  \*   being recorded
  dayFull,        \* history (plain runs): a cycle that began at 0 has delivered the quota today
  cls,            \* one call of is_india_headline: its arguments and its result
  dig,            \* one run of a snapshot or IPO job: its fetches, its posts, what it sent
  cap             \* a record that is recorded into until its lists are full

vars == << now, hostShift, botToken, diskOk, file, DEFAULT_STATE, State, npc, data, feedIdx,
           entries, entryIdx, rpc, cycles, restarts, sent, sentCount, sinceReset, cyc, dayFull,
           cls, dig, cap >>

\* What the news cycle, job_reset, the clock and a restart leave alone.
sideVars == << cls, dig, cap >>

progVars == << file, DEFAULT_STATE, State >>
histVars == << sent, sentCount, sinceReset, cyc, dayFull >>
newsLocals == << data, feedIdx, entries, entryIdx >>

SlotsPerDay == 3
\* date.today() of the host clock, as a day number.
Today == (now + hostShift) \div SlotsPerDay
\* The calendar day of the operating timezone (IST).
IstDay == now \div SlotsPerDay

\* DEFAULT_STATE as the module defines it (line 64).
FreshTemplate == Dict(NoneDate, <<>>, <<>>, 0, FALSE, FALSE)

\* DEFAULT_STATE.copy(): a new dict whose two lists are the template's lists.
CopyOf(tmpl) == Dict(tmpl.date, tmpl.posted_ids, tmpl.posted_fps, tmpl.news_count_today, TRUE, TRUE)

\* save_state(S): the file it leaves.  When open(..., "w") raises, the
\* exception is swallowed and the file is as before.
save_state(f, S, writable) ==
  IF writable THEN GoodFile(S) ELSE f

\* load_state: the dict it returns.
load_state_data(f, tmpl, today) ==
  LET read == IF f.ok THEN f.data ELSE CopyOf(tmpl)
  IN IF read.date # today THEN [CopyOf(tmpl) EXCEPT !.date = today] ELSE read

\* load_state replaces the record (the stored date is not today's).
load_state_resets(f, tmpl, today) ==
  (IF f.ok THEN f.data ELSE CopyOf(tmpl)).date # today

\* load_state: the state file it leaves (it saves only on a day change).
load_state_file(f, tmpl, today, writable) ==
  LET read == IF f.ok THEN f.data ELSE CopyOf(tmpl)
  IN IF read.date # today
       THEN save_state(f, [CopyOf(tmpl) EXCEPT !.date = today], writable)
       ELSE f

NoCycle == [clean |-> -1, lastFailed |-> 0, ok |-> FALSE]

\* A plain run: the state file is writable and the process has run since its
\* first start, so that what happens is news cycles, delivery outcomes, day
\* changes and job_reset.  The history of deliveries per day is kept for
\* plain runs.
PlainRun == diskOk /\ restarts = 0

\* A state file left by a run of an earlier day.
\* No call of is_india_headline, no snapshot or IPO job, no recording run.
NoCall == [pc |-> "none", strict |-> FALSE, title |-> <<>>, summary |-> <<>>, result |-> FALSE]
NoJob == [pc |-> "none"]
NoRecording == [pc |-> "none"]

OldFile == [ok |-> TRUE, data |-> Dict(NoneDate - 1, << <<"a">> >>, << <<"r","b","i","u","p">> >>, 1, FALSE, FALSE)]

Init ==
  /\ now = 0
  /\ hostShift = 0
  /\ botToken \in BOOLEAN
  /\ DEFAULT_STATE = FreshTemplate
  /\ diskOk \in BOOLEAN
  /\ \E f0 \in {BadFile, OldFile} :
       /\ State = load_state_data(f0, FreshTemplate, (0 + hostShift) \div SlotsPerDay)
       /\ file = load_state_file(f0, FreshTemplate, (0 + hostShift) \div SlotsPerDay, diskOk)
  /\ npc = "idle" /\ data = NoData /\ feedIdx = 0 /\ entries = <<>> /\ entryIdx = 0
  /\ rpc = "idle"
  /\ cycles = 0 /\ restarts = 0
  /\ sent = {} /\ sentCount = 0 /\ sinceReset = {} /\ cyc = NoCycle /\ dayFull = FALSE
  /\ cls = NoCall /\ dig = NoJob /\ cap = NoRecording

\* ------------------------------------------------------------------------
\* The news_interval job: fetch_and_post_news
\* ------------------------------------------------------------------------
NumFeeds == Len(RSS_FEEDS)
\* Between tg_send's return and the save_state of the recorded item.
InFlightPcs == {"send", "record", "save"}

CurEntry == entries[entryIdx]

\* The loop "for feed in RSS_FEEDS" moves on (or the function returns);
\* c is the history of the cycle to carry on.
NextFeed(c) ==
  /\ entries' = <<>> /\ entryIdx' = 0
  /\ IF feedIdx < NumFeeds
       THEN /\ feedIdx' = feedIdx + 1 /\ npc' = "parse" /\ cyc' = c
       ELSE /\ feedIdx' = 0 /\ npc' = "idle" /\ cyc' = NoCycle

\* The loop "for entry in parsed.entries[:12]" moves on.
NextEntry(c) ==
  IF entryIdx < Len(entries)
    THEN /\ entryIdx' = entryIdx + 1 /\ npc' = "entry" /\ cyc' = c
         /\ UNCHANGED << feedIdx, entries >>
    ELSE NextFeed(c)

\* The function returns from inside the loops.
Return ==
  /\ npc' = "idle" /\ feedIdx' = 0 /\ entries' = <<>> /\ entryIdx' = 0 /\ cyc' = NoCycle

\* The interval trigger fires (the job is not running): load_state() is
\* evaluated (line 282, right-hand side).
NewsFire ==
  /\ npc = "idle" /\ cycles < MaxCycles
  /\ cycles' = cycles + 1
  /\ data' = load_state_data(file, DEFAULT_STATE, Today)
  /\ file' = load_state_file(file, DEFAULT_STATE, Today, diskOk)
  /\ sinceReset' = IF load_state_resets(file, DEFAULT_STATE, Today) THEN {} ELSE sinceReset
  /\ npc' = "assign"
  /\ UNCHANGED << sideVars, now, hostShift, botToken, diskOk, DEFAULT_STATE, State, feedIdx, entries, entryIdx,
                  rpc, restarts, sent, sentCount, cyc, dayFull >>

\* STATE = <the dict load_state returned>; then the quota test of line 283.
NewsAssign ==
  /\ npc = "assign"
  /\ State' = data
  /\ data' = NoData
  /\ IF data.news_count_today >= NEWS_DAILY_LIMIT
       THEN Return
       ELSE /\ npc' = "parse" /\ feedIdx' = 1 /\ entries' = <<>> /\ entryIdx' = 0
            /\ cyc' = [NoCycle EXCEPT !.clean = IF PlainRun /\ data.news_count_today = 0 THEN 0 ELSE -1]
  /\ UNCHANGED << sideVars, now, hostShift, botToken, diskOk, file, DEFAULT_STATE, rpc, cycles, restarts,
                  sent, sentCount, sinceReset, dayFull >>

\* feedparser.parse(feed) returns; parsed.entries[:12] is taken.
ParseFeed ==
  /\ npc = "parse"
  /\ \E es \in FeedResults :
       LET got == FirstN(es, EntriesPerFeed)
       IN IF got = <<>>
            THEN NextFeed(cyc)
            ELSE /\ entries' = got /\ entryIdx' = 1 /\ npc' = "entry"
                 /\ UNCHANGED << feedIdx, cyc >>
  /\ UNCHANGED << sideVars, now, hostShift, botToken, diskOk, progVars, data, rpc, cycles, restarts,
                  sent, sentCount, sinceReset, dayFull >>

\* A faulty handler: the exception of one feed ends the whole cycle (the
\* try/except wrapped around the loop over RSS_FEEDS instead of inside it).
FeedRaised_AbortsCycle == Return

\* What "except Exception" does with the feed that raised: log it, go on
\* with the next feed.
FeedRaised == NextFeed([cyc EXCEPT !.lastFailed = feedIdx])

\* feedparser.parse(feed) raises.
ParseFails ==
  /\ npc = "parse"
  /\ FeedRaised
  /\ UNCHANGED << sideVars, now, hostShift, botToken, diskOk, progVars, data, rpc, cycles, restarts,
                  sent, sentCount, sinceReset, dayFull >>

\* An exception while an entry is processed (lines 289-312) reaches the same
\* "except Exception" of the feed.
EntryRaises ==
  /\ npc = "entry"
  /\ FeedRaised
  /\ UNCHANGED << sideVars, now, hostShift, botToken, diskOk, progVars, data, rpc, cycles, restarts,
                  sent, sentCount, sinceReset, dayFull >>

\* The tests of lines 292-300 let the entry through to tg_send.
Admissible(S, e) ==
  /\ Uid(e) # NoText /\ e.title # NoText
  /\ ~(Uid(e) \in Range(S.posted_ids) \/ norm_fp(e.title) \in Range(S.posted_fps))
  /\ is_india_headline(NEWS_STRICT_INDIA, e.title, short_from_entry(e))

\* Lines 289-312 for one entry: skip it, or build the message.
ProcessEntry ==
  /\ npc = "entry"
  /\ IF Admissible(State, ENTRIES[CurEntry])
       THEN /\ npc' = "send" /\ UNCHANGED << feedIdx, entries, entryIdx, cyc >>
       ELSE NextEntry(cyc)
  /\ UNCHANGED << sideVars, now, hostShift, botToken, diskOk, progVars, data, rpc, cycles, restarts,
                  sent, sentCount, sinceReset, dayFull >>

\* The values tg_send can return: False without BOT_TOKEN, else by the HTTP
\* status (an exception of requests.post is False too).
TgResults == IF botToken THEN {TRUE, FALSE} ELSE {FALSE}

\* A faulty line 313: the item is recorded whatever tg_send returned.
AfterSend_RecordsAlways(ok) ==
  /\ npc' = "record" /\ UNCHANGED << feedIdx, entries, entryIdx >>
  /\ cyc' = [cyc EXCEPT !.clean = IF @ >= 0 THEN @ + 1 ELSE -1, !.ok = ok]

\* Where line 313 goes with tg_send's result.
AfterSend(ok) ==
  IF ok THEN /\ npc' = "record" /\ UNCHANGED << feedIdx, entries, entryIdx >>
             /\ cyc' = [cyc EXCEPT !.clean = IF @ >= 0 THEN @ + 1 ELSE -1, !.ok = TRUE]
        ELSE NextEntry([cyc EXCEPT !.clean = -1])

\* if tg_send(msg, disable_preview=True):
TgSend ==
  /\ npc = "send"
  /\ \E ok \in TgResults :
       /\ AfterSend(ok)
       /\ sent' = IF ok /\ PlainRun THEN sent \cup {CurEntry} ELSE sent
       /\ sentCount' = IF ok /\ PlainRun THEN sentCount + 1 ELSE sentCount
       /\ sinceReset' = IF ok /\ diskOk THEN sinceReset \cup {CurEntry} ELSE sinceReset
       /\ dayFull' = (dayFull \/ (ok /\ cyc.clean >= 0 /\ cyc.clean + 1 = NEWS_DAILY_LIMIT))
  /\ UNCHANGED << sideVars, now, hostShift, botToken, diskOk, progVars, data, rpc, cycles, restarts >>

\* Lines 314-318 on the dict S: both appends, both slices (each slice is a
\* new list, no longer the template's), the counter.
Recorded(S, uid, fp) ==
  [S EXCEPT !.posted_ids = LastN(Append(@, uid), PostedCap),
            !.posted_fps = LastN(Append(@, fp), PostedCap),
            !.ids_shared = FALSE,
            !.fps_shared = FALSE,
            !.news_count_today = @ + 1]

\* What the two appends of lines 314-315 do to DEFAULT_STATE: list.append is
\* in place, so it is seen through every dict that holds the same list.
TemplateAfterRecord(tmpl, S, uid, fp) ==
  [tmpl EXCEPT !.posted_ids = IF S.ids_shared THEN Append(@, uid) ELSE @,
               !.posted_fps = IF S.fps_shared THEN Append(@, fp) ELSE @]

\* Lines 314-318: the item is recorded in STATE.
Record ==
  /\ npc = "record"
  /\ State' = Recorded(State, Uid(ENTRIES[CurEntry]), norm_fp(ENTRIES[CurEntry].title))
  /\ DEFAULT_STATE' = TemplateAfterRecord(DEFAULT_STATE, State, Uid(ENTRIES[CurEntry]),
                                          norm_fp(ENTRIES[CurEntry].title))
  /\ npc' = "save"
  /\ UNCHANGED << sideVars, now, hostShift, botToken, diskOk, file, newsLocals, rpc, cycles, restarts, histVars >>

\* save_state(STATE); time.sleep(1.0)
SaveRecorded ==
  /\ npc = "save"
  /\ file' = save_state(file, State, diskOk)
  /\ npc' = "check"
  /\ UNCHANGED << sideVars, now, hostShift, botToken, diskOk, DEFAULT_STATE, State, newsLocals, rpc, cycles, restarts,
                  sent, sentCount, sinceReset, cyc, dayFull >>

\* if STATE["news_count_today"] >= NEWS_DAILY_LIMIT: return
QuotaCheck ==
  /\ npc = "check"
  /\ IF State.news_count_today >= NEWS_DAILY_LIMIT
       THEN Return
       ELSE NextEntry([cyc EXCEPT !.ok = FALSE])
  /\ UNCHANGED << sideVars, now, hostShift, botToken, diskOk, progVars, data, rpc, cycles, restarts,
                  sent, sentCount, sinceReset, dayFull >>

\* ------------------------------------------------------------------------
\* job_reset (CronTrigger(hour=0, minute=5)), run by a pool thread
\* ------------------------------------------------------------------------
\* STATE = DEFAULT_STATE.copy()
ResetCopy ==
  /\ rpc = "copy"
  /\ State' = CopyOf(DEFAULT_STATE)
  /\ sinceReset' = {}
  /\ rpc' = "date"
  /\ UNCHANGED << sideVars, now, hostShift, botToken, diskOk, file, DEFAULT_STATE, npc, newsLocals, cycles, restarts,
                  sent, sentCount, cyc, dayFull >>

\* STATE["date"] = date.today().isoformat()
ResetDate ==
  /\ rpc = "date"
  /\ State' = [State EXCEPT !.date = Today]
  /\ rpc' = "save"
  /\ UNCHANGED << sideVars, now, hostShift, botToken, diskOk, file, DEFAULT_STATE, npc, newsLocals, cycles, restarts,
                  histVars >>

\* save_state(STATE)
ResetSave ==
  /\ rpc = "save"
  /\ file' = save_state(file, State, diskOk)
  /\ rpc' = "idle"
  /\ UNCHANGED << sideVars, now, hostShift, botToken, diskOk, DEFAULT_STATE, State, npc, newsLocals, cycles, restarts,
                  sent, sentCount, sinceReset, cyc, dayFull >>

\* ------------------------------------------------------------------------
\* The clock and the scheduler's cron trigger
\* ------------------------------------------------------------------------
\* The slot in which the cron trigger of job_reset (00:05 IST) fires.
ResetSlot == 1

\* Time passes into the next slot.  Entering the 00:05 slot submits
\* job_reset to the pool.  A slot lasts minutes to hours and job_reset three
\* statements, so a submitted job_reset is over before the slot is.
Tick ==
  /\ now < MaxTime
  /\ rpc = "idle"
  /\ now' = now + 1
  /\ rpc' = IF (now + 1) % SlotsPerDay = ResetSlot THEN "copy" ELSE "idle"
  /\ sent' = IF (now + 1) \div SlotsPerDay # IstDay THEN {} ELSE sent
  /\ sentCount' = IF (now + 1) \div SlotsPerDay # IstDay THEN 0 ELSE sentCount
  /\ sinceReset' = IF (now + 1) \div SlotsPerDay # IstDay THEN {} ELSE sinceReset
  /\ dayFull' = IF (now + 1) \div SlotsPerDay # IstDay
                   \/ (now + 1 + hostShift) \div SlotsPerDay # Today THEN FALSE ELSE dayFull
  /\ UNCHANGED << sideVars, hostShift, botToken, diskOk, progVars, npc, newsLocals, cycles, restarts,
                  cyc >>

\* The process is stopped and started again: the module is executed anew
\* (DEFAULT_STATE of line 64, STATE = load_state() of line 80, a new scheduler).
Restart ==
  /\ restarts < MaxRestarts
  /\ restarts' = restarts + 1
  /\ DEFAULT_STATE' = FreshTemplate
  /\ State' = load_state_data(file, FreshTemplate, Today)
  /\ file' = load_state_file(file, FreshTemplate, Today, diskOk)
  /\ sinceReset' = IF load_state_resets(file, FreshTemplate, Today) THEN {} ELSE sinceReset
  /\ npc' = "idle" /\ data' = NoData /\ feedIdx' = 0 /\ entries' = <<>> /\ entryIdx' = 0
  /\ rpc' = "idle"
  /\ cyc' = NoCycle
  /\ sent' = {} /\ sentCount' = 0 /\ dayFull' = FALSE
  /\ UNCHANGED << sideVars, now, hostShift, botToken, diskOk, cycles >>

NewsStep ==
  \/ NewsFire \/ NewsAssign \/ ParseFeed \/ ParseFails \/ EntryRaises \/ ProcessEntry
  \/ TgSend \/ Record \/ SaveRecorded \/ QuotaCheck

ResetStep == ResetCopy \/ ResetDate \/ ResetSave

Next == NewsStep \/ ResetStep \/ Tick \/ Restart

Spec == Init /\ [][Next]_vars

\* A state in which the scheduler's jobs are at rest: the module was loaded
\* on the first day with no state file, on a host whose clock is shift
\* slots ahead in its date.
AtRestOn(token, shift) ==
  /\ now = 0 /\ hostShift = shift /\ botToken = token /\ diskOk = TRUE
  /\ DEFAULT_STATE = FreshTemplate
  /\ State = load_state_data(BadFile, FreshTemplate, (0 + shift) \div SlotsPerDay)
  /\ file = load_state_file(BadFile, FreshTemplate, (0 + shift) \div SlotsPerDay, TRUE)
  /\ npc = "idle" /\ data = NoData /\ feedIdx = 0 /\ entries = <<>> /\ entryIdx = 0
  /\ rpc = "idle"
  /\ cycles = 0 /\ restarts = 0
  /\ sent = {} /\ sentCount = 0 /\ sinceReset = {} /\ cyc = NoCycle /\ dayFull = FALSE

AtRest(token) == AtRestOn(token, 0)

mainVars == << now, hostShift, botToken, diskOk, file, DEFAULT_STATE, State, npc, data, feedIdx,
               entries, entryIdx, rpc, cycles, restarts, sent, sentCount, sinceReset, cyc, dayFull >>

\* ------------------------------------------------------------------------
\* The same jobs on hosts of different timezones
\* ------------------------------------------------------------------------
\* date.today() reads the host's clock.  0: the host's timezone is
\* Asia/Kolkata; 1: the host's timezone is UTC, whose date turns at 05:30 IST.
HostShifts == {0, 1}

HostInit ==
  /\ \E shift \in HostShifts : AtRestOn(TRUE, shift)
  /\ cls = NoCall /\ dig = NoJob /\ cap = NoRecording

HostSpec == HostInit /\ [][Next]_vars

\* ------------------------------------------------------------------------
\* is_india_headline called on its own
\* ------------------------------------------------------------------------
\* Titles: a global-impact term only; a local term; a foreign term; a local
\* and a foreign term; a foreign and a global-impact term; none of the
\* three; a local term and the letters of a foreign one ("dow" in "down");
\* the empty title.
Titles ==
  { <<"F", "e", "d", " ", "h", "o", "l", "d", "s">>,
    <<"N", "i", "f", "t", "y", " ", "u", "p">>,
    <<"D", "o", "w", " ", "u", "p">>,
    <<"N", "i", "f", "t", "y", ",", " ", "D", "o", "w", " ", "u", "p">>,
    <<"D", "o", "w", ",", " ", "F", "e", "d">>,
    <<"G", "o", "l", "d", " ", "u", "p">>,
    <<"S", "e", "n", "s", "e", "x", " ", "d", "o", "w", "n">>,
    <<>> }

\* Summaries: empty; the country; a global-impact term; none of these.
Summaries ==
  { <<>>,
    <<"I", "n", "d", "i", "a">>,
    <<"O", "P", "E", "C", " ", "c", "u", "t">>,
    <<"g", "o", "l", "d">> }

ClassifyInit ==
  /\ AtRest(TRUE)
  /\ cls \in [pc : {"call"}, strict : BOOLEAN, title : Titles, summary : Summaries,
              result : {FALSE}]
  /\ dig = NoJob /\ cap = NoRecording

\* is_india_headline(title, summary) with NEWS_STRICT_INDIA = cls.strict.
Classify ==
  /\ cls.pc = "call"
  /\ cls' = [cls EXCEPT !.pc = "done",
                        !.result = is_india_headline(cls.strict, cls.title, cls.summary)]
  /\ UNCHANGED << mainVars, dig, cap >>

ClassifyNext == Classify

ClassifySpec == ClassifyInit /\ [][ClassifyNext]_vars

\* ------------------------------------------------------------------------
\* Lines 314-318 on a record whose lists are nearly full
\* ------------------------------------------------------------------------
\* Lengths of posted_ids and posted_fps at the start of a recording run.
StartLens == {0, 1, PostedCap - 2, PostedCap - 1, PostedCap}

\* The identities 1..n in recording order.
FirstIds(n) == IF n = 0 THEN <<>> ELSE [i \in 1..n |-> i]

\* cap.S is the record, cap.log every identity recorded so far, oldest first.
CapInit ==
  /\ AtRest(TRUE)
  /\ cls = NoCall /\ dig = NoJob
  /\ \E n \in StartLens :
       cap = [pc |-> "run", start |-> n, log |-> FirstIds(n),
              S |-> Dict(0, FirstIds(n), FirstIds(n), 0, FALSE, FALSE)]

\* One more publication is recorded: an item whose uid and fingerprint the
\* record does not hold (the test of line 295 let it through).
RecordOneMore ==
  /\ cap.pc = "run"
  /\ Len(cap.log) < cap.start + MaxRecordings
  /\ LET id == Len(cap.log) + 1
     IN cap' = [cap EXCEPT !.S = Recorded(cap.S, id, id), !.log = Append(@, id)]
  /\ UNCHANGED << mainVars, cls, dig >>

CapNext == RecordOneMore

CapSpec == CapInit /\ [][CapNext]_vars

\* ------------------------------------------------------------------------
\* The snapshot jobs and the IPO job
\* ------------------------------------------------------------------------
\* YF_SYMBOLS, by position: Sensex, Nifty 50, Bank Nifty.
YF_SYMBOLS == <<1, 2, 3>>
\* fetch_ipo_calendar(limit=6)
IpoLimit == 6

\* What fetch_ipo_calendar can meet: ok = FALSE is requests.get raising or
\* a page that cannot be read (the function returns [] all the same); ok =
\* TRUE with no rows is a listing page with an empty table.
CalendarResults ==
  { [ok |-> FALSE, rows |-> <<>>],
    [ok |-> TRUE, rows |-> <<>>],
    [ok |-> TRUE, rows |-> << <<"A", "c", "m", "e", " ", "I", "n", "d", "u", "s", "t", "r", "i", "e", "s", " ", "L", "t", "d">> >>],
    [ok |-> TRUE, rows |-> << <<"Z", "e", "n", "i", "t", "h", " ", "C", "o">>,
                             <<"A", "C", "M", "E", " ", "I", "n", "d", "u", "s", "t", "r", "i", "e", "s">> >>] }

\* What fetch_gmp_map can meet: the rows (company, GMP) of the premium table
\* in table order, or a fetch that raised.
GmpResults ==
  { [ok |-> FALSE, rows |-> <<>>],
    [ok |-> TRUE, rows |-> << [name |-> <<"B", "e", "t", "a", " ", "A", "c", "m", "e", " ", "I", "n", "d", "u", "s", "t", "r", "i", "e", "s", " ", "L", "t", "d", " ", "C", "o">>, gmp |-> "7"],
                             [name |-> <<"A", "c", "m", "e", " ", "I", "n", "d", "u", "s", "t", "r", "i", "e", "s">>, gmp |-> "25"] >>] }

NA == "NA"

\* A source the job does not fetch.
NotFetched == [ok |-> FALSE, rows |-> <<>>]

\* fetch_gmp_map, then gmp.get(key, ("NA", "NA")): the dict is keyed by
\* cols[0].lower(), a later row of the same key replaces an earlier one, and
\* get finds the equal key only.
gmp_get(rows, key) ==
  LET hits == { i \in 1..Len(rows) : Lower(rows[i].name) = key }
  IN IF hits = {} THEN NA
     ELSE rows[CHOOSE i \in hits : \A j \in hits : j <= i].gmp

\* build_ipo_posts: one post per listed item, with the premium joined by
\* it["company"].lower().  (The detail summary adds a line or not; the post
\* is made either way.)
build_ipo_posts(cal, gmp) ==
  LET items == FirstN(cal.rows, IpoLimit)
  IN [i \in 1..Len(items) |->
        [kind |-> "ipo", company |-> items[i], gmp |-> gmp_get(gmp.rows, Lower(items[i]))]]

\* The message of a snapshot job: build_indices_text gives one line per
\* symbol (the quote, or "NA" when fetch_yf_quote returned None); job_close
\* adds build_fii_dii_text (the figures, or "Data not available.").
Snapshot(kind, quotes, fii) == [kind |-> kind, quotes |-> quotes, fii |-> fii]

Placeholder == [kind |-> "ipo-not-available"]

\* The messages of msgs that tg_send delivered, rs being its results.
Delivered(msgs, rs) ==
  LET idx == { i \in 1..Len(msgs) : rs[i] }
      RECURSIVE Pick(_)
      Pick(i) == IF i > Len(msgs) THEN <<>>
                 ELSE (IF i \in idx THEN <<msgs[i]>> ELSE <<>>) \o Pick(i + 1)
  IN Pick(1)

\* The jobs neither name STATE nor call load_state or save_state.
DigestFrame_CountsPosts ==
  /\ State' = [State EXCEPT !.news_count_today = @ + 1]
  /\ UNCHANGED << file, DEFAULT_STATE >>

DigestFrame == UNCHANGED << file, DEFAULT_STATE, State >>

restVars == << now, hostShift, botToken, diskOk, npc, data, feedIdx, entries, entryIdx, rpc,
               cycles, restarts, sent, sentCount, sinceReset, cyc, dayFull >>

\* A record of today with the news quota used up.
QuotaUsed ==
  [Recorded(Recorded(load_state_data(BadFile, FreshTemplate, 0),
                     Uid(ENTRIES[1]), norm_fp(ENTRIES[1].title)),
            Uid(ENTRIES[3]), norm_fp(ENTRIES[3].title))
     EXCEPT !.news_count_today = NEWS_DAILY_LIMIT]

\* A cron trigger is due.  The record is today's, empty or with the quota
\* used up; weekday is what is_weekday() will return.
DigestInit ==
  /\ now = 0 /\ hostShift = 0 /\ botToken \in BOOLEAN /\ diskOk = TRUE
  /\ DEFAULT_STATE = FreshTemplate
  /\ State \in {Plain(load_state_data(BadFile, FreshTemplate, 0)), QuotaUsed}
  /\ file = GoodFile(State)
  /\ npc = "idle" /\ data = NoData /\ feedIdx = 0 /\ entries = <<>> /\ entryIdx = 0
  /\ rpc = "idle"
  /\ cycles = 0 /\ restarts = 0
  /\ sent = {} /\ sentCount = 0 /\ sinceReset = {} /\ cyc = NoCycle /\ dayFull = FALSE
  /\ cls = NoCall /\ cap = NoRecording
  /\ dig \in [pc : {"due"}, weekday : BOOLEAN]

\* The state of dig after a job: what was fetched, what was handed to
\* tg_send, what tg_send delivered.
JobDone(job, fetched, handed, rs) ==
  dig' = [pc |-> "done", job |-> job, weekday |-> dig.weekday, fetched |-> fetched,
          handed |-> handed, delivered |-> Delivered(handed, rs)]

\* if is_weekday(): tg_send(build_indices_text(...))
SendIndices(job) ==
  \E quotes \in [1..Len(YF_SYMBOLS) -> BOOLEAN], ok \in TgResults :
    LET handed == IF dig.weekday THEN << Snapshot(job, quotes, "none") >> ELSE <<>>
    IN JobDone(job, [quotes |-> quotes, fii |-> FALSE, cal |-> NotFetched, gmp |-> NotFetched],
               handed, [i \in 1..Len(handed) |-> ok])

job_premarket ==
  /\ dig.pc = "due"
  /\ SendIndices("premarket")
  /\ DigestFrame
  /\ UNCHANGED << restVars, cls, cap >>

job_midday ==
  /\ dig.pc = "due"
  /\ SendIndices("midday")
  /\ DigestFrame
  /\ UNCHANGED << restVars, cls, cap >>

\* job_close: indices and FII/DII in one message.
job_close ==
  /\ dig.pc = "due"
  /\ \E quotes \in [1..Len(YF_SYMBOLS) -> BOOLEAN], fii \in BOOLEAN, ok \in TgResults :
       LET handed == IF dig.weekday
                       THEN << Snapshot("close", quotes, IF fii THEN "figures" ELSE "not-available") >>
                       ELSE <<>>
       IN JobDone("close", [quotes |-> quotes, fii |-> fii, cal |-> NotFetched, gmp |-> NotFetched],
                  handed, [i \in 1..Len(handed) |-> ok])
  /\ DigestFrame
  /\ UNCHANGED << restVars, cls, cap >>

\* job_ipo: the posts, or the placeholder when there is none.
job_ipo ==
  /\ dig.pc = "due"
  /\ \E cal \in CalendarResults, gmp \in GmpResults :
       LET posts == build_ipo_posts(cal, gmp)
           handed == IF posts = <<>> THEN << Placeholder >> ELSE posts
       IN \E rs \in [1..Len(handed) -> TgResults] :
            JobDone("ipo", [quotes |-> [i \in 1..Len(YF_SYMBOLS) |-> FALSE], fii |-> FALSE,
                            cal |-> cal, gmp |-> gmp],
                    handed, rs)
  /\ DigestFrame
  /\ UNCHANGED << restVars, cls, cap >>

DigestNext == job_premarket \/ job_midday \/ job_close \/ job_ipo

DigestSpec == DigestInit /\ [][DigestNext]_vars

\* ------------------------------------------------------------------------
\* Properties
\* ------------------------------------------------------------------------
Fp(e) == norm_fp(ENTRIES[e].title)
Key(e) == Uid(ENTRIES[e])
Empty(S) == S.posted_ids = <<>> /\ S.posted_fps = <<>> /\ S.news_count_today = 0
\* What places the news thread: every step of fetch_and_post_news changes it.
NewsPos == << npc, feedIdx, entryIdx, entries, cycles >>
\* S still holds everything R holds, and counts no less.
Keeps(S, R) ==
  /\ Range(R.posted_ids) \subseteq Range(S.posted_ids)
  /\ Range(R.posted_fps) \subseteq Range(S.posted_fps)
  /\ S.news_count_today >= R.news_count_today

\* C1: in no calendar day are more than NEWS_DAILY_LIMIT news items delivered.
C1_QuotaPerDay == PlainRun => sentCount <= NEWS_DAILY_LIMIT

\* C2: an item whose natural key was already delivered today is not delivered
\* again that day.
C2_OncePerKey ==
  [][(PlainRun /\ npc = "send" /\ cyc'.ok)
       => \A e \in sent : Key(e) # Key(CurEntry)]_vars

\* C3: two entries with one title fingerprint and different natural keys are
\* never both delivered on one day.
C3_OncePerFingerprint ==
  PlainRun => \A e1, e2 \in sent : Fp(e1) = Fp(e2) => Key(e1) = Key(e2)

\* C4: inside the loop of fetch_and_post_news the record and the state file
\* change only in the recording of an item whose tg_send returned True; a
\* tg_send that returned False leaves the record, the template and the file
\* as they were and goes on without recording.
C4_RecordOnlyAfterDelivery ==
  [][(restarts' = restarts /\ NewsPos' # NewsPos /\ npc \notin {"idle", "assign"})
       => /\ (npc = "send" /\ ~cyc'.ok) => (UNCHANGED progVars /\ npc' # "record")
          /\ npc' = "record" => (npc = "send" /\ cyc'.ok)
          /\ progVars' # progVars => npc \in {"record", "save"}]_vars

\* Before the first job_reset and the first restart, the loop is at an entry
\* whose predecessor in the feed is still admissible: the predecessor went to
\* tg_send, tg_send returned False and nothing was recorded.
C4_Witness ==
  /\ now = 0 /\ restarts = 0 /\ botToken
  /\ npc = "entry" /\ entryIdx > 1
  /\ Admissible(State, ENTRIES[entries[entryIdx - 1]])

\* C5: the record that job_reset or a day change in load_state creates has
\* empty posted_ids and posted_fps and a zero counter.
C5_ResetExact ==
  [][PlainRun
       => /\ (rpc = "copy" /\ rpc' = "date") => Empty(State')
          /\ (npc = "idle" /\ npc' = "assign" /\ load_state_resets(file, DEFAULT_STATE, Today))
               => Empty(data')]_vars

\* C6: when the state file cannot be written, the start of a later cycle of
\* the same day keeps what the in-memory record holds.
C6_MemoryAuthoritative ==
  [][(~diskOk /\ restarts' = restarts /\ npc = "assign" /\ npc' # "assign" /\ State.date = Today)
       => Keeps(State', State)]_vars

\* C7: with a writable state file, a restart at a point where no delivery is
\* in flight keeps every item delivered that day since the last reset, and
\* the counter of a record of that day does not drop.
C7_RestartKeepsRecord ==
  [][(diskOk /\ restarts' = restarts + 1 /\ npc \notin InFlightPcs)
       => /\ \A e \in sinceReset : /\ Key(e) \in Range(State'.posted_ids)
                                   /\ Fp(e) \in Range(State'.posted_fps)
          /\ State.date = Today => State'.news_count_today >= State.news_count_today]_vars

\* C8: job_reset is never inside its replace-and-save of STATE while a news
\* cycle is between its load_state and its return.
C8_WritesSerialized == ~(rpc \in {"date", "save"} /\ npc # "idle")

\* C9: once a cycle that began at count 0 has delivered the quota without a
\* failed delivery, no entry is handed to tg_send for the rest of that day.
C9_QuotaEndsDeliveries ==
  [][(PlainRun /\ dayFull) => ~(npc # "send" /\ npc' = "send")]_vars

\* C10: an exception in one feed moves the cycle on to the next feed of
\* RSS_FEEDS and changes nothing else; short of the quota return, the cycle
\* ends only after the last feed.
C10_FeedFailureIsolated ==
  [][restarts' = restarts
       => /\ (cyc'.lastFailed # cyc.lastFailed /\ cyc'.lastFailed # 0)
               => /\ cyc'.lastFailed = feedIdx
                  /\ feedIdx' = feedIdx + 1 /\ npc' = "parse"
                  /\ UNCHANGED progVars
          /\ (npc \in {"parse", "entry", "send"} /\ npc' = "idle") => feedIdx = NumFeeds]_vars

\* An entry of a later feed is delivered and recorded in a cycle in which an
\* earlier feed raised.
C10_Witness ==
  /\ npc = "save" /\ cyc.lastFailed # 0 /\ feedIdx > cyc.lastFailed
  /\ Key(CurEntry) \in Range(State.posted_ids)

\* The terms of a list that the case-folded text contains.
HasTerm(words, text) == \E i \in 1..Len(words) : Contains(Lower(text), words[i])
HasGlobalTerm(title, summary) == HasTerm(GLOBAL_WITH_IMPACT, title \o summary)
NamesCountry(text) == Contains(Lower(text), <<"i","n","d","i","a">>)

\* C11: an item whose title+summary holds a global-impact term is accepted,
\* whatever NEWS_STRICT_INDIA is and whatever local or foreign terms the
\* title holds.
C11_GlobalImpactAccepted ==
  (cls.pc = "done" /\ HasGlobalTerm(cls.title, cls.summary)) => cls.result

\* Strict mode, a title with a global-impact term and no local term: accepted.
C11_Witness ==
  /\ cls.pc = "done" /\ cls.strict /\ cls.result
  /\ HasTerm(GLOBAL_WITH_IMPACT, cls.title) /\ ~HasTerm(MUST_INCLUDE, cls.title)

\* C12: without a global-impact term, a title that holds a local-market term
\* is accepted even when it also holds a foreign-market term.
C12_LocalTermBeatsForeign ==
  (cls.pc = "done" /\ ~HasGlobalTerm(cls.title, cls.summary) /\ HasTerm(MUST_INCLUDE, cls.title))
    => cls.result

\* C17: with NEWS_STRICT_INDIA off, an item with no global-impact term, no
\* local and no foreign term in the title and no mention of the country in
\* title or summary is rejected.
C17_FinalElseRejects ==
  (/\ cls.pc = "done" /\ ~cls.strict
   /\ ~HasGlobalTerm(cls.title, cls.summary)
   /\ ~HasTerm(MUST_INCLUDE, cls.title) /\ ~HasTerm(BLOCK_FOREIGN, cls.title)
   /\ ~NamesCountry(cls.title) /\ ~NamesCountry(cls.summary))
    => ~cls.result

\* C14: without BOT_TOKEN the process halts at startup: no job of the
\* scheduler ever runs.
C14_MissingTokenHalts == ~botToken => (cycles = 0 /\ npc = "idle" /\ rpc = "idle")

\* C16: the date that stamps the record and triggers its replacement,
\* date.today(), turns exactly when the date of the operating timezone turns.
C16_OperatingTimezoneDay == [][(Today' # Today) <=> (IstDay' # IstDay)]_vars

\* C19: DEFAULT_STATE is as line 64 defines it, in every state that news
\* cycles, day changes and job_reset can reach.
C19_TemplateNeverModified == PlainRun => DEFAULT_STATE = FreshTemplate

\* The list holds the last PostedCap entries of the log, in the log's order.
IsRecentTail(list, log) ==
  /\ Len(list) = (IF Len(log) <= PostedCap THEN Len(log) ELSE PostedCap)
  /\ \A i \in 1..Len(list) : list[i] = log[Len(log) - Len(list) + i]

\* C18: after every recorded publication posted_ids and posted_fps hold at
\* most 600 entries, namely the 600 most recently recorded identities in
\* recording order, so that each of those is still seen.
C18_CapKeepsMostRecent ==
  cap.pc = "run"
    => /\ IsRecentTail(cap.S.posted_ids, cap.log)
       /\ IsRecentTail(cap.S.posted_fps, cap.log)
       /\ \A j \in 1..Len(cap.log) :
            j > Len(cap.log) - PostedCap => cap.log[j] \in Range(cap.S.posted_ids)

\* Publications were recorded into full lists: the oldest were evicted.
C18_Witness ==
  /\ cap.pc = "run" /\ Len(cap.log) > cap.start /\ Len(cap.log) > PostedCap + 1
  /\ Len(cap.S.posted_ids) = PostedCap /\ cap.S.posted_ids[1] = Len(cap.log) - PostedCap + 1

\* The premium the digest is to show for a listing: the row of the equal
\* case-folded name; failing that, the first row in table order whose name
\* contains the listing's or is contained in it; failing that, none.
JoinedPremium(rows, company) ==
  LET key == Lower(company)
      exact == { i \in 1..Len(rows) : Lower(rows[i].name) = key }
      near == { i \in 1..Len(rows) :
                  Contains(Lower(rows[i].name), key) \/ Contains(key, Lower(rows[i].name)) }
      First(S) == CHOOSE i \in S : \A j \in S : i <= j
  IN IF exact # {} THEN rows[First(exact)].gmp
     ELSE IF near # {} THEN rows[First(near)].gmp
     ELSE NA

\* C13: every post of the IPO digest shows the premium joined by exact name,
\* else by containment in table order, else NA.
C13_PremiumJoin ==
  (dig.pc = "done" /\ dig.job = "ipo")
    => \A i \in 1..Len(dig.handed) :
         dig.handed[i].kind = "ipo"
           => dig.handed[i].gmp = JoinedPremium(dig.fetched.gmp.rows, dig.handed[i].company)

\* Every fetch of the job failed.
AllFetchesFailed ==
  IF dig.job = "ipo" THEN ~dig.fetched.cal.ok /\ ~dig.fetched.gmp.ok
  ELSE /\ \A i \in 1..Len(YF_SYMBOLS) : ~dig.fetched.quotes[i]
       /\ dig.job = "close" => ~dig.fetched.fii

\* C15: a job whose fetches all failed delivers nothing, and the "Data not
\* available" digest is delivered only after a listing fetch that succeeded
\* and listed nothing.
C15_FailedFetchSendsNothing ==
  dig.pc = "done"
    => /\ AllFetchesFailed => dig.delivered = <<>>
       /\ (dig.delivered # <<>> /\ dig.delivered[1].kind = Placeholder.kind)
            => (dig.fetched.cal.ok /\ dig.fetched.cal.rows = <<>>)

\* C20: a snapshot or IPO job leaves STATE, DEFAULT_STATE and the state file
\* as they were, whatever it fetched and whatever tg_send returned.
C20_DigestJobsKeepRecord == [][dig' # dig => UNCHANGED progVars]_vars

\* A job delivered a message although the news quota of the day was used up.
C20_Witness ==
  /\ dig.pc = "done" /\ dig.delivered # <<>>
  /\ State.news_count_today = NEWS_DAILY_LIMIT /\ file = GoodFile(State)

====
